---- MODULE Spec2Model ----
(***************************************************************************)
(* A model of google.adk.tools.tool_context.ToolContext: one ToolContext   *)
(* over one invocation context, and the calls a tool makes on it.          *)
(*                                                                         *)
(* Python values are tagged records (PyNone, PyStr, PyList, PyDict), so    *)
(* that None differs from every string, "" included.  The keys of a dict   *)
(* are the DOMAIN of a TLA+ function.  An exception is the string of its   *)
(* type and message.                                                       *)
(* The collaborators that are not part of tool_context.py (AuthHandler,    *)
(* the artifact and memory services, CallbackContext) are modelled by the  *)
(* set of outcomes a call on them may have: a returned value or a raised   *)
(* error.  Every call made on a collaborator is recorded in `calls`.       *)
(***************************************************************************)
EXTENDS Integers, Sequences, FiniteSets, TLC

\* ---------------------------------------------------------------- bounds
NumConfigs == 2
NumNonces == 2
MaxKeys == 2
MaxCalls == 2

\* ---------------------------------------------------------------- values
PyNone == [type |-> "NoneType"]
PyStr(s) == [type |-> "str", str |-> s]
PyList(l) == [type |-> "list", items |-> l]
PyDict(d) == [type |-> "dict", dict |-> d]

Return(v) == [kind |-> "return", value |-> v]
Raise(e) == [kind |-> "raise", error |-> e]

AuthConfigs == {"cfg" \o ToString(i) : i \in 1..NumConfigs}
Nonces == 1..NumNonces
FunctionCallIds == {PyNone, PyStr(""), PyStr("fc1")}
Tokens == {PyStr("tok"), PyStr("tok2")}
ArtifactNames == {"a.txt", "b.txt"}
Queries == {"q", ""}
Responses == {"memories-1", "memories-2"}
DelegateErrors == {"RuntimeError: delegate failed", "ValueError: delegate failed"}

ValueError_function_call_id == "ValueError: function_call_id is not set."
ValueError_artifact_service == "ValueError: Artifact service is not initialized."
ValueError_memory_service == "ValueError: Memory service is not available."

EmptyDict == [k \in {} |-> PyNone]

\* All lists of artifact names of length at most n.
RECURSIVE KeyLists(_)
KeyLists(n) ==
  IF n = 0 THEN {<<>>}
  ELSE LET shorter == KeyLists(n - 1)
       IN shorter \cup {Append(s, a) : s \in {t \in shorter : Len(t) = n - 1}, a \in ArtifactNames}

\* ---------------------------------------------------------------- state
VARIABLES
  function_call_id,     \* ToolContext.function_call_id
  event_actions,        \* ToolContext._event_actions
  invocation_context,   \* ToolContext._invocation_context
  state,                \* ToolContext.state (inherited)
  pc,                   \* "idle", or the coroutine suspended at its await
  last,                 \* the most recent call on the ToolContext and its outcome
  calls,                \* the calls that call made on collaborators
  n_requests,           \* successful request_credential calls so far
  constructed           \* what the constructor was given

vars == <<function_call_id, event_actions, invocation_context, state, pc,
          last, calls, n_requests, constructed>>

\* ---------------------------------------------------------------- collaborators
\* The descriptor AuthHandler(auth_config).generate_auth_request() returns:
\* built from auth_config, with a part (the OAuth state) the handler chooses.
AuthRequest(auth_config, nonce) ==
  [type |-> "AuthConfig", auth_config |-> auth_config, nonce |-> nonce]

\* AuthHandler(auth_config).get_auth_response(state): the credential stored
\* in the state for the config, None when there is none.
AuthHandler_get_auth_response(auth_config, st) ==
  IF auth_config \in DOMAIN st THEN st[auth_config] ELSE PyNone

\* EventActions(): the default event actions, with no requested auth config.
EventActions == [requested_auth_configs |-> EmptyDict]

\* CallbackContext.__init__: the given event actions, defaulted if absent.
CallbackContext_init(given) ==
  IF given.type = "NoneType" THEN EventActions ELSE given.value

\* ---------------------------------------------------------------- helpers
\* Mutant of Truthy: `is not None` in place of truthiness, "" passes.
Truthy_is_not_none(s) == s.type = "str"

\* bool(s) of an Optional[str]: None and "" are falsy.
Truthy(s) == s.type = "str" /\ s.str # ""

\* Mutant of DictSet: the dict is replaced by one holding only the new entry.
DictSet_replaces(d, k, v) == [x \in {k} |-> v]

\* Mutant of DictSet: d.setdefault(k, v), an existing entry is kept.
DictSet_setdefault(d, k, v) == [x \in DOMAIN d \cup {k} |-> IF x \in DOMAIN d THEN d[x] ELSE v]

\* d[k] = v on a dict
DictSet(d, k, v) == [x \in DOMAIN d \cup {k} |-> IF x = k THEN v ELSE d[x]]

\* Mutant of HasBearer: the key is looked up as "Bearer".
HasBearer_capitalised(ic) ==
  /\ ic.has_requested_auth_configs
  /\ ic.requested_auth_configs.type = "dict"
  /\ DOMAIN ic.requested_auth_configs.dict # {}
  /\ "Bearer" \in DOMAIN ic.requested_auth_configs.dict

\* hasattr(ic, "requested_auth_configs") and ic.requested_auth_configs
\*   and "bearer" in ic.requested_auth_configs
HasBearer(ic) ==
  /\ ic.has_requested_auth_configs
  /\ ic.requested_auth_configs.type = "dict"
  /\ DOMAIN ic.requested_auth_configs.dict # {}
  /\ "bearer" \in DOMAIN ic.requested_auth_configs.dict

Call(target, args, outcome) == [target |-> target, args |-> args, outcome |-> outcome]
Pending == [kind |-> "pending"]
Result(op, args, outcome) == [op |-> op, args |-> args, outcome |-> outcome]
NoArgs == [k \in {} |-> PyNone]

\* ---------------------------------------------------------------- construction
InitialDicts ==
  { [k \in ks |-> AuthRequest("cfg1", 1)] : ks \in SUBSET {"fc1", "fc2"} }

RequestedAuthConfigs ==
  { PyNone } \cup
  { PyDict(d) : d \in { [k \in ks |-> IF k = "bearer" THEN t ELSE PyStr("pwd")] :
                          ks \in SUBSET {"bearer", "basic"}, t \in Tokens } }

InvocationContexts ==
  { [app_name |-> "app", user_id |-> "user", session |-> [id |-> "session"],
     artifact_service |-> a, memory_service |-> m,
     has_requested_auth_configs |-> h, requested_auth_configs |-> r] :
      a \in {PyNone, PyStr("artifact_service")},
      m \in {PyNone, PyStr("memory_service")},
      h \in BOOLEAN, r \in RequestedAuthConfigs }

States == { [k \in ks |-> PyStr("cred")] : ks \in {{}} \cup {{c} : c \in AuthConfigs} }

GivenEventActions ==
  { PyNone } \cup
  { [type |-> "EventActions", value |-> [requested_auth_configs |-> d]] : d \in InitialDicts }

\* ToolContext(invocation_context, function_call_id=..., event_actions=...)
Init ==
  \E ic \in InvocationContexts, id \in FunctionCallIds, st \in States,
     given \in GivenEventActions :
    /\ (~ic.has_requested_auth_configs => ic.requested_auth_configs = PyNone)
    /\ invocation_context = ic
    /\ function_call_id = id
    /\ event_actions = CallbackContext_init(given)
    /\ state = st
    /\ pc = "idle"
    /\ last = Result("__init__", NoArgs, Return(PyNone))
    /\ calls = <<>>
    /\ n_requests = 0
    /\ constructed = [function_call_id |-> id, event_actions |-> CallbackContext_init(given)]

\* ---------------------------------------------------------------- operations
\* ToolContext.actions (property): the event actions, not a copy.
actions ==
  /\ pc = "idle"
  /\ last' = Result("actions", NoArgs, Return([type |-> "EventActions", value |-> event_actions]))
  /\ calls' = <<>>
  /\ UNCHANGED <<function_call_id, event_actions, invocation_context, state, pc,
                 n_requests, constructed>>

\* Mutant of request_credential: a missing function_call_id is assigned
\* instead of rejected.
request_credential_assigns_id(auth_config) ==
  /\ pc = "idle"
  /\ n_requests < MaxCalls
  /\ function_call_id' = IF Truthy(function_call_id) THEN function_call_id ELSE PyStr("fc1")
  /\ \/ \E nonce \in Nonces :
          /\ calls' = << Call("AuthHandler.generate_auth_request",
                              [auth_config |-> auth_config],
                              Return(AuthRequest(auth_config, nonce))) >>
          /\ event_actions' =
               [event_actions EXCEPT !.requested_auth_configs =
                  DictSet(@, function_call_id'.str, AuthRequest(auth_config, nonce))]
          /\ last' = Result("request_credential", [auth_config |-> auth_config],
                            Return(PyNone))
          /\ n_requests' = n_requests + 1
     \/ \E e \in DelegateErrors :
          /\ calls' = << Call("AuthHandler.generate_auth_request",
                              [auth_config |-> auth_config], Raise(e)) >>
          /\ last' = Result("request_credential", [auth_config |-> auth_config], Raise(e))
          /\ UNCHANGED <<event_actions, n_requests>>
  /\ UNCHANGED <<invocation_context, state, pc, constructed>>

\* ToolContext.request_credential(auth_config)
request_credential(auth_config) ==
  /\ pc = "idle"
  /\ n_requests < MaxCalls
  /\ IF ~Truthy(function_call_id)
     THEN /\ last' = Result("request_credential", [auth_config |-> auth_config],
                            Raise(ValueError_function_call_id))
          /\ calls' = <<>>
          /\ UNCHANGED <<event_actions, n_requests>>
     ELSE \/ \E nonce \in Nonces :
               /\ calls' = << Call("AuthHandler.generate_auth_request",
                                   [auth_config |-> auth_config],
                                   Return(AuthRequest(auth_config, nonce))) >>
               /\ event_actions' =
                    [event_actions EXCEPT !.requested_auth_configs =
                       DictSet(@, function_call_id.str, AuthRequest(auth_config, nonce))]
               /\ last' = Result("request_credential", [auth_config |-> auth_config],
                                 Return(PyNone))
               /\ n_requests' = n_requests + 1
          \/ \E e \in DelegateErrors :
               /\ calls' = << Call("AuthHandler.generate_auth_request",
                                   [auth_config |-> auth_config], Raise(e)) >>
               /\ last' = Result("request_credential", [auth_config |-> auth_config], Raise(e))
               /\ UNCHANGED <<event_actions, n_requests>>
  /\ UNCHANGED <<function_call_id, invocation_context, state, pc, constructed>>

\* Mutant of get_auth_response: without a bearer entry there is no credential,
\* the handler is not asked.
get_auth_response_bearer_only(auth_config) ==
  /\ pc = "idle"
  /\ last' = Result("get_auth_response", [auth_config |-> auth_config],
                    IF HasBearer(invocation_context)
                    THEN Return(invocation_context.requested_auth_configs.dict["bearer"])
                    ELSE Return(PyNone))
  /\ calls' = <<>>
  /\ UNCHANGED <<function_call_id, event_actions, invocation_context, state, pc,
                 n_requests, constructed>>

\* Mutant of get_auth_response: the bearer entry is consumed (dict.pop).
get_auth_response_pops_bearer(auth_config) ==
  /\ pc = "idle"
  /\ IF HasBearer(invocation_context)
     THEN /\ last' = Result("get_auth_response", [auth_config |-> auth_config],
                            Return(invocation_context.requested_auth_configs.dict["bearer"]))
          /\ calls' = <<>>
          /\ invocation_context' =
               [invocation_context EXCEPT !.requested_auth_configs =
                  PyDict([k \in DOMAIN @.dict \ {"bearer"} |-> @.dict[k]])]
     ELSE /\ calls' = << Call("AuthHandler.get_auth_response",
                              [auth_config |-> auth_config, state |-> state],
                              Return(AuthHandler_get_auth_response(auth_config, state))) >>
          /\ last' = Result("get_auth_response", [auth_config |-> auth_config],
                            Return(AuthHandler_get_auth_response(auth_config, state)))
          /\ UNCHANGED invocation_context
  /\ UNCHANGED <<function_call_id, event_actions, state, pc, n_requests, constructed>>

\* ToolContext.get_auth_response(auth_config)
get_auth_response(auth_config) ==
  /\ pc = "idle"
  /\ IF HasBearer(invocation_context)
     THEN /\ last' = Result("get_auth_response", [auth_config |-> auth_config],
                            Return(invocation_context.requested_auth_configs.dict["bearer"]))
          /\ calls' = <<>>
     ELSE \/ /\ calls' = << Call("AuthHandler.get_auth_response",
                                 [auth_config |-> auth_config, state |-> state],
                                 Return(AuthHandler_get_auth_response(auth_config, state))) >>
             /\ last' = Result("get_auth_response", [auth_config |-> auth_config],
                               Return(AuthHandler_get_auth_response(auth_config, state)))
          \/ \E e \in DelegateErrors :
               /\ calls' = << Call("AuthHandler.get_auth_response",
                                   [auth_config |-> auth_config, state |-> state], Raise(e)) >>
               /\ last' = Result("get_auth_response", [auth_config |-> auth_config], Raise(e))
  /\ UNCHANGED <<function_call_id, event_actions, invocation_context, state, pc,
                 n_requests, constructed>>

\* Mutant of list_artifacts: the user id is passed as the session id.
list_artifacts_user_as_session ==
  /\ pc = "idle"
  /\ IF invocation_context.artifact_service = PyNone
     THEN /\ last' = Result("list_artifacts", NoArgs, Raise(ValueError_artifact_service))
          /\ calls' = <<>>
          /\ pc' = "idle"
     ELSE /\ calls' = << Call("artifact_service.list_artifact_keys",
                              [app_name |-> invocation_context.app_name,
                               user_id |-> invocation_context.user_id,
                               session_id |-> invocation_context.user_id],
                              Pending) >>
          /\ last' = Result("list_artifacts", NoArgs, Pending)
          /\ pc' = "list_artifacts"
  /\ UNCHANGED <<function_call_id, event_actions, invocation_context, state,
                 n_requests, constructed>>

\* ToolContext.list_artifacts(), up to its await
list_artifacts ==
  /\ pc = "idle"
  /\ IF invocation_context.artifact_service = PyNone
     THEN /\ last' = Result("list_artifacts", NoArgs, Raise(ValueError_artifact_service))
          /\ calls' = <<>>
          /\ pc' = "idle"
     ELSE /\ calls' = << Call("artifact_service.list_artifact_keys",
                              [app_name |-> invocation_context.app_name,
                               user_id |-> invocation_context.user_id,
                               session_id |-> invocation_context.session.id],
                              Pending) >>
          /\ last' = Result("list_artifacts", NoArgs, Pending)
          /\ pc' = "list_artifacts"
  /\ UNCHANGED <<function_call_id, event_actions, invocation_context, state,
                 n_requests, constructed>>

\* Mutant of list_artifacts_resume: an error of the service is caught and an
\* empty list returned.
list_artifacts_resume_swallows(outcome) ==
  /\ pc = "list_artifacts"
  /\ calls' = [calls EXCEPT ![1].outcome = outcome]
  /\ last' = [last EXCEPT !.outcome =
                IF outcome.kind = "raise" THEN Return(PyList(<<>>)) ELSE outcome]
  /\ pc' = "idle"
  /\ UNCHANGED <<function_call_id, event_actions, invocation_context, state,
                 n_requests, constructed>>

\* ToolContext.list_artifacts(), resumed with the outcome of the service's call
list_artifacts_resume(outcome) ==
  /\ pc = "list_artifacts"
  /\ calls' = [calls EXCEPT ![1].outcome = outcome]
  /\ last' = [last EXCEPT !.outcome = outcome]
  /\ pc' = "idle"
  /\ UNCHANGED <<function_call_id, event_actions, invocation_context, state,
                 n_requests, constructed>>

\* Mutant of search_memory: the guard tests the artifact service.
search_memory_tests_artifact_service(query) ==
  /\ pc = "idle"
  /\ IF invocation_context.artifact_service = PyNone
     THEN /\ last' = Result("search_memory", [query |-> query], Raise(ValueError_memory_service))
          /\ calls' = <<>>
          /\ pc' = "idle"
     ELSE /\ calls' = << Call("memory_service.search_memory",
                              [app_name |-> invocation_context.app_name,
                               user_id |-> invocation_context.user_id,
                               query |-> query],
                              Pending) >>
          /\ last' = Result("search_memory", [query |-> query], Pending)
          /\ pc' = "search_memory"
  /\ UNCHANGED <<function_call_id, event_actions, invocation_context, state,
                 n_requests, constructed>>

\* ToolContext.search_memory(query), up to its await
search_memory(query) ==
  /\ pc = "idle"
  /\ IF invocation_context.memory_service = PyNone
     THEN /\ last' = Result("search_memory", [query |-> query], Raise(ValueError_memory_service))
          /\ calls' = <<>>
          /\ pc' = "idle"
     ELSE /\ calls' = << Call("memory_service.search_memory",
                              [app_name |-> invocation_context.app_name,
                               user_id |-> invocation_context.user_id,
                               query |-> query],
                              Pending) >>
          /\ last' = Result("search_memory", [query |-> query], Pending)
          /\ pc' = "search_memory"
  /\ UNCHANGED <<function_call_id, event_actions, invocation_context, state,
                 n_requests, constructed>>

\* ToolContext.search_memory(query), resumed with the outcome of the service's call
search_memory_resume(outcome) ==
  /\ pc = "search_memory"
  /\ calls' = [calls EXCEPT ![1].outcome = outcome]
  /\ last' = [last EXCEPT !.outcome = outcome]
  /\ pc' = "idle"
  /\ UNCHANGED <<function_call_id, event_actions, invocation_context, state,
                 n_requests, constructed>>

\* What a call of the artifact service, and of the memory service, may produce.
ArtifactOutcomes ==
  {Return(PyList(l)) : l \in KeyLists(MaxKeys)} \cup {Raise(e) : e \in DelegateErrors}
MemoryOutcomes ==
  {Return([type |-> "SearchMemoryResponse", memories |-> r]) : r \in Responses}
    \cup {Raise(e) : e \in DelegateErrors}

Next ==
  \/ actions
  \/ \E auth_config \in AuthConfigs : request_credential(auth_config)
  \/ \E auth_config \in AuthConfigs : get_auth_response(auth_config)
  \/ list_artifacts
  \/ \E outcome \in ArtifactOutcomes : list_artifacts_resume(outcome)
  \/ \E query \in Queries : search_memory(query)
  \/ \E outcome \in MemoryOutcomes : search_memory_resume(outcome)

Spec == Init /\ [][Next]_vars

\* ---------------------------------------------------------------- properties
\* What the properties read of the state.
requested_auth_configs == event_actions.requested_auth_configs
IdMissing == function_call_id = PyNone \/ function_call_id = PyStr("")
BearerPresent ==
  /\ invocation_context.has_requested_auth_configs
  /\ invocation_context.requested_auth_configs # PyNone
  /\ "bearer" \in DOMAIN invocation_context.requested_auth_configs.dict

\* C1: request_credential on a ToolContext whose function_call_id is None or
\* empty raises the ValueError for every auth_config, without using the auth
\* handler and leaving the requested-auth-configs mapping as it was.
C1_MissingIdRejected ==
  [][\A auth_config \in AuthConfigs :
       (request_credential(auth_config) /\ IdMissing) =>
         /\ last'.op = "request_credential"
         /\ last'.outcome = Raise(ValueError_function_call_id)
         /\ calls' = <<>>
         /\ requested_auth_configs' = requested_auth_configs]_vars

C1_Witness ==
  /\ function_call_id = PyStr("")
  /\ last.op = "request_credential"
  /\ last.outcome = Raise(ValueError_function_call_id)
  /\ DOMAIN requested_auth_configs = {"fc1", "fc2"}

\* C2: a successful request_credential(cfg) with function_call_id k puts under
\* k the descriptor the handler built from cfg generated, and every other key
\* keeps its presence and its value.
C2_InsertsUnderId ==
  [][\A auth_config \in AuthConfigs :
       (request_credential(auth_config) /\ last'.outcome.kind = "return") =>
         /\ function_call_id.type = "str"
         /\ function_call_id.str # ""
         /\ Len(calls') = 1
         /\ calls'[1].target = "AuthHandler.generate_auth_request"
         /\ calls'[1].args = [auth_config |-> auth_config]
         /\ calls'[1].outcome.kind = "return"
         /\ DOMAIN requested_auth_configs' =
              DOMAIN requested_auth_configs \cup {function_call_id.str}
         /\ requested_auth_configs'[function_call_id.str] = calls'[1].outcome.value
         /\ requested_auth_configs'[function_call_id.str].auth_config = auth_config
         /\ \A k \in DOMAIN requested_auth_configs \ {function_call_id.str} :
              requested_auth_configs'[k] = requested_auth_configs[k]]_vars

C2_Witness ==
  /\ function_call_id = PyStr("fc1")
  /\ last.op = "request_credential"
  /\ last.outcome.kind = "return"
  /\ n_requests = 1
  /\ DOMAIN requested_auth_configs = {"fc1", "fc2"}
  /\ DOMAIN constructed.event_actions.requested_auth_configs = {"fc2"}
  /\ requested_auth_configs["fc1"] # requested_auth_configs["fc2"]

\* C3: when the invocation context's requested_auth_configs has the key
\* "bearer", get_auth_response returns the value under it, whatever the config
\* and the state, and the auth handler is not called.
C3_BearerShortcut ==
  (last.op = "get_auth_response" /\ BearerPresent) =>
    /\ last.outcome = Return(invocation_context.requested_auth_configs.dict["bearer"])
    /\ calls = <<>>

C3_Witness ==
  /\ last.op = "get_auth_response"
  /\ BearerPresent
  /\ last.outcome = Return(PyStr("tok"))
  /\ last.args.auth_config \in DOMAIN state
  /\ "basic" \in DOMAIN invocation_context.requested_auth_configs.dict
  /\ invocation_context.requested_auth_configs.dict["basic"] = PyStr("pwd")

\* C4: when there is no bearer entry (attribute not exposed, None, empty
\* mapping, mapping without "bearer"), get_auth_response calls the handler
\* built from cfg once on the current state and gives its result unchanged.
C4_HandlerFallback ==
  (last.op = "get_auth_response" /\ ~BearerPresent) =>
    /\ Len(calls) = 1
    /\ calls[1].target = "AuthHandler.get_auth_response"
    /\ calls[1].args = [auth_config |-> last.args.auth_config, state |-> state]
    /\ last.outcome = calls[1].outcome

C4_Witness ==
  /\ last.op = "get_auth_response"
  /\ invocation_context.has_requested_auth_configs
  /\ invocation_context.requested_auth_configs # PyNone
  /\ DOMAIN invocation_context.requested_auth_configs.dict = {"basic"}
  /\ last.outcome = Return(PyStr("cred"))
  /\ DOMAIN state = {last.args.auth_config}

\* C5: list_artifacts raises the ValueError without calling a service when the
\* artifact service is None; otherwise it calls the artifact service once with
\* (app_name, user_id, session.id) and returns the keys the service produced,
\* in the service's order.
C5_ListArtifacts ==
  (last.op = "list_artifacts") =>
    IF invocation_context.artifact_service = PyNone
    THEN /\ pc = "idle"
         /\ last.outcome = Raise(ValueError_artifact_service)
         /\ calls = <<>>
    ELSE /\ Len(calls) = 1
         /\ calls[1].target = "artifact_service.list_artifact_keys"
         /\ calls[1].args = [app_name |-> invocation_context.app_name,
                             user_id |-> invocation_context.user_id,
                             session_id |-> invocation_context.session.id]
         /\ last.outcome = calls[1].outcome
         /\ (pc = "idle" <=> last.outcome # Pending)

C5_Witness ==
  /\ pc = "idle"
  /\ last.op = "list_artifacts"
  /\ last.outcome = Return(PyList(<<"b.txt", "a.txt">>))

\* C6: search_memory raises the ValueError without calling a service when the
\* memory service is None; otherwise it calls the memory service once with
\* (app_name, user_id) and the query as given and returns the service's response.
C6_SearchMemory ==
  (last.op = "search_memory") =>
    IF invocation_context.memory_service = PyNone
    THEN /\ pc = "idle"
         /\ last.outcome = Raise(ValueError_memory_service)
         /\ calls = <<>>
    ELSE /\ Len(calls) = 1
         /\ calls[1].target = "memory_service.search_memory"
         /\ calls[1].args = [app_name |-> invocation_context.app_name,
                             user_id |-> invocation_context.user_id,
                             query |-> last.args.query]
         /\ last.outcome = calls[1].outcome
         /\ (pc = "idle" <=> last.outcome # Pending)

C6_Witness ==
  /\ pc = "idle"
  /\ last.op = "search_memory"
  /\ last.args.query = ""
  /\ last.outcome.kind = "return"
  /\ last.outcome.value.memories = "memories-2"
  /\ invocation_context.artifact_service = PyNone

\* C7: get_auth_response changes nothing on either path: the event actions'
\* mapping, the invocation context's requested_auth_configs and
\* function_call_id are after the call what they were before it.
C7_GetAuthResponsePure ==
  [][\A auth_config \in AuthConfigs :
       get_auth_response(auth_config) =>
         /\ requested_auth_configs' = requested_auth_configs
         /\ invocation_context'.has_requested_auth_configs
              = invocation_context.has_requested_auth_configs
         /\ invocation_context'.requested_auth_configs
              = invocation_context.requested_auth_configs
         /\ function_call_id' = function_call_id]_vars

C7_Witness ==
  /\ last.op = "get_auth_response"
  /\ BearerPresent
  /\ calls = <<>>
  /\ n_requests = 1
  /\ DOMAIN requested_auth_configs = {"fc1", "fc2"}

\* C8: an error raised by a delegate reaches the caller as that same error,
\* after one call of the delegate; the only errors ToolContext raises itself
\* are the ValueErrors for a missing function_call_id, a None artifact service
\* and a None memory service.
C8_ErrorsPassThrough ==
  /\ (pc = "idle" /\ calls # <<>> /\ calls[1].outcome.kind = "raise") =>
       (Len(calls) = 1 /\ last.outcome = calls[1].outcome)
  /\ (pc = "idle" /\ last.outcome.kind = "raise") =>
       \/ Len(calls) = 1 /\ calls[1].outcome = last.outcome
       \/ /\ calls = <<>>
          /\ \/ /\ last.op = "request_credential"
                /\ IdMissing
                /\ last.outcome.error = ValueError_function_call_id
             \/ /\ last.op = "list_artifacts"
                /\ invocation_context.artifact_service = PyNone
                /\ last.outcome.error = ValueError_artifact_service
             \/ /\ last.op = "search_memory"
                /\ invocation_context.memory_service = PyNone
                /\ last.outcome.error = ValueError_memory_service

C8_Witness ==
  /\ pc = "idle"
  /\ last.op = "list_artifacts"
  /\ last.outcome = Raise("ValueError: delegate failed")
  /\ Len(calls) = 1

\* C9: function_call_id is the value the constructor was given, after any
\* sequence of calls, successful or failing.
C9_FunctionCallIdImmutable ==
  function_call_id = constructed.function_call_id

C9_Witness ==
  /\ function_call_id = PyNone
  /\ last.op = "request_credential"
  /\ last.outcome.kind = "raise"

\* C10: request_credential overwrites.  Once request_credential has succeeded
\* on a ToolContext with function_call_id k, the mapping has k; it has the keys
\* it had at construction and k; and right after a successful call the value
\* under k is the descriptor generated for that call's auth_config.
C10_Overwrites ==
  (n_requests >= 1) =>
    LET k == function_call_id.str
        before == constructed.event_actions.requested_auth_configs
    IN /\ k \in DOMAIN requested_auth_configs
       /\ Cardinality(DOMAIN requested_auth_configs) =
            Cardinality(DOMAIN before) + (IF k \in DOMAIN before THEN 0 ELSE 1)
       /\ (last.op = "request_credential" /\ last.outcome.kind = "return") =>
            /\ requested_auth_configs[k] = calls[1].outcome.value
            /\ requested_auth_configs[k].auth_config = last.args.auth_config

C10_Witness ==
  /\ n_requests = 2
  /\ last.op = "request_credential"
  /\ last.outcome.kind = "return"
  /\ function_call_id = PyStr("fc1")
  /\ DOMAIN constructed.event_actions.requested_auth_configs = {"fc1", "fc2"}
  /\ requested_auth_configs["fc1"] = AuthRequest("cfg2", 2)

====
